---- MODULE Spec2Model ----
(***************************************************************************)
(* A model of src/src/blockchain.js: the classes Transactions, Block and   *)
(* Blockchain, and of the driver script (src/unnamed/part_000) that builds *)
(* transactions, mines and then edits a mined block.                       *)
(*                                                                         *)
(* JavaScript strings are sequences of characters (one-character TLA+      *)
(* strings; a few fixed literals such as the JSON keys are one token).     *)
(* String concatenation is \o, so that `a + b + c' loses the boundaries    *)
(* between a, b and c exactly as it does in the code.                      *)
(*                                                                         *)
(* The two library primitives are idealised:                               *)
(*  - SHA256(s) is a string made of `difficulty' leading hex digits, which *)
(*    are a deterministic function of s, followed by s itself in brackets: *)
(*    two digests are equal iff their preimages are (collision freedom);   *)
(*  - an ECDSA signature by key k of message m is a string naming k's      *)
(*    public key and m; it verifies under exactly that key and message     *)
(*    (unforgeability, deterministic signing).                             *)
(***************************************************************************)
EXTENDS Integers, Sequences, FiniteSets, TLC

VARIABLES
    chain,                \* Blockchain.chain
    pendingTransactions,  \* Blockchain.pendingTransactions
    tx,                   \* the Transactions object the last call was given or
                          \* made on (NoTx for a call without one)
    lastKey,              \* the key handle last passed to signTransaction
    signedAs,             \* <<from, to, amount>> of tx when it was last signed
    op,                   \* the operation performed by the last step
    result,               \* its outcome: a return value or an error message
    tampered,             \* whether the caller has edited the chain directly
    miner,                \* the argument of the last minePendingTransaction
    addedCount,           \* the number of addTransaction calls that returned
    theBlock,             \* a Block object being constructed and mined
    lifecycle,            \* "Sealing" until mineBlock returns, then "Sealed"
    mineDifficulty        \* the argument of theBlock.mineBlock

\* the variables of a Block mined on its own
blockVars == <<theBlock, lifecycle, mineDifficulty>>

vars ==
    <<chain, pendingTransactions, tx, lastKey, signedAs, op, result, tampered,
      miner, addedCount, theBlock, lifecycle, mineDifficulty>>

---------------------------------------------------------------------------
(* Bounds of the model *)

MaxChain == 3     \* blocks in the chain, genesis included
MaxPool == 2      \* entries of pendingTransactions

---------------------------------------------------------------------------
(* JavaScript values and strings *)

\* null and undefined: values no string is equal to
Null == <<"null">>
Undefined == <<"undefined">>

\* String(null), String(undefined): what `+' appends for them
nullText == <<"n", "u", "l", "l">>
undefinedText == <<"u", "n", "d", "e", "f", "i", "n", "e", "d">>

\* the characters and literal tokens strings are made of
Alphabet ==
    << "0", "1", "2", "3", "4", "5", "6", "7", "8", "9",
       "a", "b", "c", "d", "e", "f", "A", "B", "G", "/", "\"", ",",
       "[", "]", "{", "}", "<", ">", "n", "u", "l", "i", "s", "k", "o", "g",
       "\"fromAddress\":", "\"toAddress\":", "\"amount\":", "\"signature\":",
       "30", "null", "undefined" >>

CharCode == [c \in {Alphabet[i] : i \in 1..Len(Alphabet)} |->
                CHOOSE i \in 1..Len(Alphabet) : Alphabet[i] = c]

Digits == <<"0", "1", "2", "3", "4", "5", "6", "7", "8", "9">>

\* Number.prototype.toString for a non-negative integer
RECURSIVE NumberToString(_)
NumberToString(n) ==
    IF n < 10 THEN <<Digits[n + 1]>>
    ELSE NumberToString(n \div 10) \o <<Digits[(n % 10) + 1]>>

\* the string `+' appends for an address value
AddressToString(a) ==
    IF a = Null THEN nullText
    ELSE IF a = Undefined THEN undefinedText
    ELSE a

\* !v for a string-or-null value: null, undefined and '' are falsy
Falsy(v) == v = Null \/ v = Undefined \/ v = <<>>

---------------------------------------------------------------------------
(* crypto-js SHA256 and elliptic's sign / verify, idealised *)

\* the number the leading digest digits of s are taken from: it depends on
\* the length of s and on its last two characters, so it changes whenever
\* the text at the end of s (a block's nonce) does
Weight(s) ==
    Len(s)
    + (IF Len(s) >= 1 THEN CharCode[s[Len(s)]] ELSE 0)
    + (IF Len(s) >= 2 THEN 4 * CharCode[s[Len(s) - 1]] ELSE 0)

\* the leading hex digits of the digest of s: a deterministic function of s
HexChars == <<"0", "5", "a", "f">>

HexPrefix(s, n) ==
    [i \in 1..n |-> HexChars[((Weight(s) \div (4 ^ (i - 1))) % 4) + 1]]

\* Blockchain.difficulty, and the number of digest digits the model computes
difficulty == 2

SHA256(s) == HexPrefix(s, difficulty) \o <<"<">> \o s \o <<">">>

\* the key handles, and signingKey.getPublic('hex')
Keys == {"kA", "kB"}

getPublic(k) == IF k = "kA" THEN <<"A">> ELSE <<"B">>

\* signingKey.sign(hashTx, 'base64').toDER('hex')
ecSign(k, msg) == <<"30">> \o getPublic(k) \o <<"/">> \o msg

\* ec.keyFromPublic(address, 'hex').verify(msg, signature)
ecVerify(address, msg, signature) ==
    signature = <<"30">> \o address \o <<"/">> \o msg

---------------------------------------------------------------------------
(* class Transactions *)

\* new Transactions(fromAddress, toAddress, amount): no signature property
Transactions(fromAddress, toAddress, amount) ==
    [fromAddress |-> fromAddress, toAddress |-> toAddress,
     amount |-> amount, signature |-> Undefined]

\* an element of a `transactions' value that is a Transactions object
IsTransactions(e) == "fromAddress" \in DOMAIN e

\* Transactions.calculateHash
Transactions_calculateHash(t) ==
    SHA256(AddressToString(t.fromAddress) \o AddressToString(t.toAddress)
             \o NumberToString(t.amount))

\* Transactions.signTransaction: the error thrown, or "ok"
signTransactionResult(t, signingKey) ==
    IF getPublic(signingKey) # t.fromAddress
    THEN "You cannot sign transactions for other wallets!"
    ELSE "ok"

\* signTransaction without the ownership check taking effect on the object
signTransactionAnyKey(t, signingKey) ==
    [t EXCEPT !.signature = ecSign(signingKey, Transactions_calculateHash(t))]

\* Transactions.signTransaction: the object after the call
signTransaction(t, signingKey) ==
    IF getPublic(signingKey) # t.fromAddress
    THEN t
    ELSE [t EXCEPT !.signature = ecSign(signingKey, Transactions_calculateHash(t))]

\* Transactions.isValid: "true", "false" or the error thrown
isValid(t) ==
    IF t.fromAddress = Null THEN "true"
    ELSE IF t.signature = Undefined \/ Len(t.signature) = 0
    THEN "No signature in this transaction"
    ELSE IF ecVerify(t.fromAddress, Transactions_calculateHash(t), t.signature)
    THEN "true"
    ELSE "false"

---------------------------------------------------------------------------
(* class Block *)

\* a JavaScript string used where an array is expected: iterating it yields
\* its characters, which are not Transactions objects
StringValue(s) == [i \in 1..Len(s) |-> [char |-> s[i]]]

IsStringValue(v) == v # <<>> /\ ~IsTransactions(v[1])

StringOf(v) == [i \in 1..Len(v) |-> v[i].char]

\* JSON.stringify of one Transactions object: own properties in creation
\* order; `signature' exists only once signTransaction has set it
JSONobject(t) ==
    <<"{", "\"fromAddress\":">>
    \o (IF t.fromAddress = Null THEN nullText
        ELSE <<"\"">> \o t.fromAddress \o <<"\"">>)
    \o <<",", "\"toAddress\":">>
    \o (IF t.toAddress = Null THEN nullText
        ELSE <<"\"">> \o t.toAddress \o <<"\"">>)
    \o <<",", "\"amount\":">> \o NumberToString(t.amount)
    \o (IF t.signature = Undefined THEN <<>>
        ELSE <<",", "\"signature\":", "\"">> \o t.signature \o <<"\"">>)
    \o <<"}">>

RECURSIVE JSONelements(_, _)
JSONelements(ts, i) ==
    IF i > Len(ts) THEN <<>>
    ELSE (IF i > 1 THEN <<",">> ELSE <<>>)
         \o JSONobject(ts[i]) \o JSONelements(ts, i + 1)

\* JSON.stringify(this.transactions)
JSONstringify(ts) ==
    IF IsStringValue(ts) THEN <<"\"">> \o StringOf(ts) \o <<"\"">>
    ELSE <<"[">> \o JSONelements(ts, 1) \o <<"]">>

\* Block.calculateHash with this.nonce converted to the string nonceText;
\* this.index is never set, so the string starts with "undefined"
calculateHashWith(b, nonceText) ==
    SHA256(undefinedText \o b.previousHash \o NumberToString(b.timestamp)
             \o JSONstringify(b.transactions) \o nonceText)

\* Block.calculateHash
Block_calculateHash(b) == calculateHashWith(b, NumberToString(b.nonce))

\* new Block(timestamp, transactions, previousHash): the hash is computed
\* before this.nonce is assigned, i.e. while it is still undefined
Block(timestamp, transactions, previousHash) ==
    LET b == [timestamp |-> timestamp, transactions |-> transactions,
              previousHash |-> previousHash, nonce |-> 0]
    IN  [timestamp |-> timestamp, transactions |-> transactions,
         previousHash |-> previousHash,
         hash |-> calculateHashWith(b, undefinedText),
         nonce |-> 0]

\* Array(difficulty + 1).join('0')
Zeros(d) == [i \in 1..d |-> "0"]

\* String.prototype.substring(0, d)
Substring0(s, d) == SubSeq(s, 1, IF d < Len(s) THEN d ELSE Len(s))

\* Block.mineBlock: the block when the loop exits
RECURSIVE mineBlock(_, _)
mineBlock(b, d) ==
    IF Substring0(b.hash, d) # Zeros(d)
    THEN LET b1 == [b EXCEPT !.nonce = b.nonce + 1]
         IN  mineBlock([b1 EXCEPT !.hash = Block_calculateHash(b1)], d)
    ELSE b

TypeError == "TypeError: tx.isValid is not a function"

\* Block.hasValidTransactions: "true", "false" or the error thrown
RECURSIVE hasValidTransactionsFrom(_, _)
hasValidTransactionsFrom(ts, i) ==
    IF i > Len(ts) THEN "true"
    ELSE IF ~IsTransactions(ts[i]) THEN TypeError
    ELSE LET v == isValid(ts[i])
         IN  IF v = "true" THEN hasValidTransactionsFrom(ts, i + 1) ELSE v

\* hasValidTransactions answering false where isValid throws
hasValidTransactionsCaught(b) ==
    IF hasValidTransactionsFrom(b.transactions, 1) = "true"
    THEN "true" ELSE "false"

hasValidTransactions(b) == hasValidTransactionsFrom(b.transactions, 1)

---------------------------------------------------------------------------
(* class Blockchain *)

\* Blockchain.mimingReward
mimingReward == 100

\* Blockchain.createGenesisBlock: new Block(0, "02/10/2018", "GenesisBlock", "0");
\* the constructor takes three parameters, so the date is the `transactions'
\* and "GenesisBlock" the previousHash
createGenesisBlock ==
    Block(0,
          StringValue(<<"0", "2", "/", "1", "0", "/", "2", "0", "1", "8">>),
          <<"G", "e", "n", "e", "s", "i", "s", "B", "l", "o", "c", "k">>)

\* Blockchain.getLatestBlock
getLatestBlock(c) == c[Len(c)]

\* the inner loop with `else if' for the recipient branch
RECURSIVE balanceOfTransactionsElseIf(_, _, _, _)
balanceOfTransactionsElseIf(ts, i, address, balance) ==
    IF i > Len(ts) THEN balance
    ELSE IF ~IsTransactions(ts[i])
    THEN balanceOfTransactionsElseIf(ts, i + 1, address, balance)
    ELSE LET b2 == IF ts[i].fromAddress = address
                   THEN balance - ts[i].amount
                   ELSE IF ts[i].toAddress = address
                   THEN balance + ts[i].amount ELSE balance
         IN  balanceOfTransactionsElseIf(ts, i + 1, address, b2)

\* the inner loop of getAddressOfBalance over one block's transactions
RECURSIVE balanceOfTransactions(_, _, _, _)
balanceOfTransactions(ts, i, address, balance) ==
    IF i > Len(ts) THEN balance
    ELSE IF ~IsTransactions(ts[i])
    THEN balanceOfTransactions(ts, i + 1, address, balance)
    ELSE LET b1 == IF ts[i].fromAddress = address
                   THEN balance - ts[i].amount ELSE balance
             b2 == IF ts[i].toAddress = address
                   THEN b1 + ts[i].amount ELSE b1
         IN  balanceOfTransactions(ts, i + 1, address, b2)

RECURSIVE balanceOfChain(_, _, _, _)
balanceOfChain(c, i, address, balance) ==
    IF i > Len(c) THEN balance
    ELSE balanceOfChain(c, i + 1, address,
             balanceOfTransactions(c[i].transactions, 1, address, balance))

\* Blockchain.getAddressOfBalance (address is a string or null)
getAddressOfBalance(c, address) == balanceOfChain(c, 1, address, 0)

\* Blockchain.isChainValid: "true", "false" or the error thrown; i is the
\* loop index plus one (sequences start at 1)
RECURSIVE isChainValidFrom(_, _)
isChainValidFrom(c, i) ==
    IF i > Len(c) THEN "true"
    ELSE LET currentBlock == c[i]
             previousBlock == c[i - 1]
             v == hasValidTransactions(currentBlock)
         IN  IF v # "true" THEN v
             ELSE IF currentBlock.hash # Block_calculateHash(currentBlock)
             THEN "false"
             ELSE IF currentBlock.previousHash # previousBlock.hash
             THEN "false"
             ELSE isChainValidFrom(c, i + 1)

\* isChainValid checking the genesis block's own transactions and hash too
isChainValidWithGenesis(c) ==
    IF hasValidTransactions(c[1]) # "true" THEN hasValidTransactions(c[1])
    ELSE IF c[1].hash # Block_calculateHash(c[1]) THEN "false"
    ELSE isChainValidFrom(c, 2)

\* the loop with the bound i < chain.length - 1
isChainValidSkipLast(c) == isChainValidFrom(SubSeq(c, 1, Len(c) - 1), 2)

isChainValid(c) == isChainValidFrom(c, 2)

---------------------------------------------------------------------------
(* The ledger: addTransaction and minePendingTransaction *)

A == <<"A">>
B == <<"B">>
Addresses == {A, B}

\* the key handle whose public key is the address
KeyOf(address) == CHOOSE k \in Keys : getPublic(k) = address

\* a transfer built and signed by its sender, as the driver does for tx1
Signed(from, to, amount) ==
    signTransaction(Transactions(from, to, amount), KeyOf(from))

\* the transactions callers submit: signed transfers, and defective ones
\* (unsigned, reward-shaped, without recipient, edited after signing)
ValidInputs == {Signed(A, t, 10) : t \in Addresses}

InvalidInputs ==
    { Transactions(A, B, 10),
      Transactions(Null, B, 10),
      Signed(A, Null, 10),
      [Signed(A, B, 10) EXCEPT !.amount = 1] }

Inputs == ValidInputs \cup InvalidInputs

\* Date.now(): the clock has advanced since the latest block was created
DateNow == {getLatestBlock(chain).timestamp + 1}

\* no transaction handled yet
NoTx == Transactions(Undefined, Undefined, 0)

NotTampered == [kind |-> "none", block |-> 0, index |-> 0]

\* no Block is being mined on its own
NoBlock ==
    /\ theBlock = createGenesisBlock
    /\ lifecycle = "none"
    /\ mineDifficulty = difficulty

InitLedger ==
    /\ chain = <<createGenesisBlock>>
    /\ pendingTransactions = <<>>
    /\ tampered = NotTampered
    /\ miner = Null
    /\ addedCount = 0

Init ==
    /\ InitLedger
    /\ NoBlock
    /\ tx = NoTx
    /\ lastKey = "none"
    /\ signedAs = <<>>
    /\ op = "new Blockchain"
    /\ result = "ok"

\* addTransaction refusing a transaction that is already in the pool
addTransactionResultDedup(t) ==
    IF Falsy(t.fromAddress) \/ Falsy(t.toAddress)
    THEN "Transaction must include from and to address"
    ELSE IF \E i \in 1..Len(pendingTransactions) : pendingTransactions[i] = t
    THEN "Duplicate transaction"
    ELSE LET v == isValid(t)
         IN  IF v = "false"
             THEN "Cannot add an invalid transaction to the chain"
             ELSE IF v = "true" THEN "ok" ELSE v

\* addTransaction refusing a transfer the sender's balance does not cover
addTransactionResultFundsCheck(t) ==
    IF Falsy(t.fromAddress) \/ Falsy(t.toAddress)
    THEN "Transaction must include from and to address"
    ELSE IF getAddressOfBalance(chain, t.fromAddress) < t.amount
    THEN "Not enough balance"
    ELSE LET v == isValid(t)
         IN  IF v = "false"
             THEN "Cannot add an invalid transaction to the chain"
             ELSE IF v = "true" THEN "ok" ELSE v

\* addTransaction without the call of isValid
addTransactionResultNoValidCheck(t) ==
    IF Falsy(t.fromAddress) \/ Falsy(t.toAddress)
    THEN "Transaction must include from and to address"
    ELSE "ok"

\* addTransaction without the check of the two addresses
addTransactionResultNoAddressCheck(t) ==
    LET v == isValid(t)
    IN  IF v = "false"
        THEN "Cannot add an invalid transaction to the chain"
        ELSE IF v = "true" THEN "ok" ELSE v

\* Blockchain.addTransaction: the error thrown, or "ok"
addTransactionResult(t) ==
    IF Falsy(t.fromAddress) \/ Falsy(t.toAddress)
    THEN "Transaction must include from and to address"
    ELSE LET v == isValid(t)
         IN  IF v = "false"
             THEN "Cannot add an invalid transaction to the chain"
             ELSE IF v = "true" THEN "ok" ELSE v

\* addTransaction pushing into the array the latest block holds as well
AddTransactionIntoBlock(t) ==
    /\ tampered.kind = "none"
    /\ Len(pendingTransactions) < MaxPool
    /\ op' = "addTransaction"
    /\ tx' = t
    /\ result' = addTransactionResult(t)
    /\ pendingTransactions' =
           IF addTransactionResult(t) = "ok"
           THEN Append(pendingTransactions, t)
           ELSE pendingTransactions
    /\ chain' =
           IF addTransactionResult(t) = "ok" /\ Len(chain) > 1
           THEN [chain EXCEPT ![Len(chain)].transactions = Append(@, t)]
           ELSE chain
    /\ addedCount' =
           IF addTransactionResult(t) = "ok" THEN addedCount + 1 ELSE addedCount
    /\ UNCHANGED <<lastKey, signedAs, tampered, miner>>
    /\ UNCHANGED blockVars

\* addTransaction pushing before it validates
AddTransactionPushFirst(t) ==
    /\ tampered.kind = "none"
    /\ Len(pendingTransactions) < MaxPool
    /\ op' = "addTransaction"
    /\ tx' = t
    /\ result' = addTransactionResult(t)
    /\ pendingTransactions' = Append(pendingTransactions, t)
    /\ addedCount' =
           IF addTransactionResult(t) = "ok" THEN addedCount + 1 ELSE addedCount
    /\ UNCHANGED <<chain, lastKey, signedAs, tampered, miner>>
    /\ UNCHANGED blockVars

\* Blockchain.addTransaction(t)
AddTransaction(t) ==
    /\ tampered.kind = "none"
    /\ Len(pendingTransactions) < MaxPool
    /\ op' = "addTransaction"
    /\ tx' = t
    /\ result' = addTransactionResult(t)
    /\ pendingTransactions' =
           IF addTransactionResult(t) = "ok"
           THEN Append(pendingTransactions, t)
           ELSE pendingTransactions
    /\ addedCount' =
           IF addTransactionResult(t) = "ok" THEN addedCount + 1 ELSE addedCount
    /\ UNCHANGED <<chain, lastKey, signedAs, tampered, miner>>
    /\ UNCHANGED blockVars

\* minePendingTransaction pushing the block without calling mineBlock
MinePendingTransactionUnmined(miningRewardAddress, now) ==
    /\ tampered.kind = "none"
    /\ Len(chain) < MaxChain
    /\ chain' = Append(chain, Block(now, pendingTransactions, <<>>))
    /\ pendingTransactions' =
           <<Transactions(Null, miningRewardAddress, mimingReward)>>
    /\ op' = "minePendingTransaction"
    /\ result' = "ok"
    /\ tx' = NoTx
    /\ miner' = miningRewardAddress
    /\ UNCHANGED <<lastKey, signedAs, tampered, addedCount>>
    /\ UNCHANGED blockVars

\* minePendingTransaction pushing the reward onto the old pool instead of
\* replacing the pool
MinePendingTransactionKeepPool(miningRewardAddress, now) ==
    /\ tampered.kind = "none"
    /\ Len(chain) < MaxChain
    /\ LET block == Block(now, pendingTransactions, <<>>)
       IN  chain' = Append(chain, mineBlock(block, difficulty))
    /\ pendingTransactions' =
           Append(pendingTransactions,
                  Transactions(Null, miningRewardAddress, mimingReward))
    /\ op' = "minePendingTransaction"
    /\ result' = "ok"
    /\ tx' = NoTx
    /\ miner' = miningRewardAddress
    /\ UNCHANGED <<lastKey, signedAs, tampered, addedCount>>
    /\ UNCHANGED blockVars

\* minePendingTransaction putting the reward into the block it mines
MinePendingTransactionRewardInBlock(miningRewardAddress, now) ==
    /\ tampered.kind = "none"
    /\ Len(chain) < MaxChain
    /\ LET reward == Transactions(Null, miningRewardAddress, mimingReward)
           block == Block(now, Append(pendingTransactions, reward), <<>>)
       IN  chain' = Append(chain, mineBlock(block, difficulty))
    /\ pendingTransactions' = <<>>
    /\ op' = "minePendingTransaction"
    /\ result' = "ok"
    /\ tx' = NoTx
    /\ miner' = miningRewardAddress
    /\ UNCHANGED <<lastKey, signedAs, tampered, addedCount>>
    /\ UNCHANGED blockVars

\* Blockchain.minePendingTransaction(miningRewardAddress), Date.now() = now
MinePendingTransaction(miningRewardAddress, now) ==
    /\ tampered.kind = "none"
    /\ Len(chain) < MaxChain
    /\ LET block == Block(now, pendingTransactions, <<>>)
       IN  chain' = Append(chain, mineBlock(block, difficulty))
    /\ pendingTransactions' =
           <<Transactions(Null, miningRewardAddress, mimingReward)>>
    /\ op' = "minePendingTransaction"
    /\ result' = "ok"
    /\ tx' = NoTx
    /\ miner' = miningRewardAddress
    /\ UNCHANGED <<lastKey, signedAs, tampered, addedCount>>
    /\ UNCHANGED blockVars

Next ==
    \/ \E t \in Inputs : AddTransaction(t)
    \/ \E a \in Addresses, now \in DateNow : MinePendingTransaction(a, now)

Spec == Init /\ [][Next]_vars

---------------------------------------------------------------------------
(* The ledger with its two queries, getAddressOfBalance and isChainValid *)

\* chain.getAddressOfBalance(address): the number returned, as text
GetAddressOfBalance(address) ==
    /\ tampered.kind = "none"
    /\ op' = "getAddressOfBalance"
    /\ result' = ToString(getAddressOfBalance(chain, address))
    /\ tx' = NoTx
    /\ UNCHANGED <<chain, pendingTransactions, tampered, lastKey, signedAs>>
    /\ UNCHANGED <<miner, addedCount, theBlock, lifecycle, mineDifficulty>>

\* chain.isChainValid()
IsChainValid ==
    /\ tampered.kind = "none"
    /\ op' = "isChainValid"
    /\ result' = isChainValid(chain)
    /\ tx' = NoTx
    /\ UNCHANGED <<chain, pendingTransactions, tampered, lastKey, signedAs>>
    /\ UNCHANGED <<miner, addedCount, theBlock, lifecycle, mineDifficulty>>

NextRead ==
    \/ Next
    \/ \E a \in Addresses : GetAddressOfBalance(a)
    \/ IsChainValid

SpecRead == Init /\ [][NextRead]_vars

---------------------------------------------------------------------------
(* The caller edits the chain directly after mining, as the driver does     *)
(* with savjeeCoin.chain[1].transactions[0].amount = 1, and then stops.     *)

TamperedAmounts == {1, 10, 100}

\* chain[i].transactions[j].amount = v (indices from 1)
TamperAmount(i, j, v) ==
    /\ tampered.kind = "none"
    /\ op = "minePendingTransaction"
    /\ i \in 1..Len(chain)
    /\ ~IsStringValue(chain[i].transactions)
    /\ j \in 1..Len(chain[i].transactions)
    /\ v # chain[i].transactions[j].amount
    /\ chain' = [chain EXCEPT ![i].transactions[j].amount = v]
    /\ tampered' = [kind |-> "amount", block |-> i, index |-> j]
    /\ op' = "edit amount"
    /\ result' = "ok"
    /\ UNCHANGED <<pendingTransactions, tx, lastKey, signedAs, miner, addedCount>>
    /\ UNCHANGED blockVars

\* the values a caller may write into a previousHash: the hashes in the
\* chain, the genesis marker and the empty string
PreviousHashValues ==
    {chain[i].hash : i \in 1..Len(chain)} \cup {chain[1].previousHash, <<>>}

\* chain[i].previousHash = h, for a non-genesis block
TamperPreviousHash(i, h) ==
    /\ tampered.kind = "none"
    /\ op = "minePendingTransaction"
    /\ i \in 2..Len(chain)
    /\ h # chain[i].previousHash
    /\ chain' = [chain EXCEPT ![i].previousHash = h]
    /\ tampered' = [kind |-> "previousHash", block |-> i, index |-> 0]
    /\ op' = "edit previousHash"
    /\ result' = "ok"
    /\ UNCHANGED <<pendingTransactions, tx, lastKey, signedAs, miner, addedCount>>
    /\ UNCHANGED blockVars

\* the blocks at positions i and j exchanged
SwapBlocks(i, j) ==
    /\ tampered.kind = "none"
    /\ op = "minePendingTransaction"
    /\ i \in 1..Len(chain)
    /\ j \in 1..Len(chain)
    /\ i < j
    /\ chain' = [chain EXCEPT ![i] = chain[j], ![j] = chain[i]]
    /\ tampered' = [kind |-> "swap", block |-> i, index |-> j]
    /\ op' = "swap blocks"
    /\ result' = "ok"
    /\ UNCHANGED <<pendingTransactions, tx, lastKey, signedAs, miner, addedCount>>
    /\ UNCHANGED blockVars

\* the values a caller may write into the signature of a transaction of a
\* block: none, the empty string, and a signature made with another key
SignatureValues(t) ==
    {Undefined, <<>>} \cup
    {ecSign(k, Transactions_calculateHash(t)) :
         k \in {k \in Keys : getPublic(k) # t.fromAddress}}

\* chain[i].transactions[j].signature = v (indices from 1)
TamperSignature(i, j, v) ==
    /\ tampered.kind = "none"
    /\ op = "minePendingTransaction"
    /\ i \in 2..Len(chain)
    /\ j \in 1..Len(chain[i].transactions)
    /\ chain[i].transactions[j].fromAddress # Null
    /\ v \in SignatureValues(chain[i].transactions[j])
    /\ v # chain[i].transactions[j].signature
    /\ chain' = [chain EXCEPT ![i].transactions[j].signature = v]
    /\ tampered' = [kind |-> "signature", block |-> i, index |-> j]
    /\ op' = "edit signature"
    /\ result' = "ok"
    /\ UNCHANGED <<pendingTransactions, tx, lastKey, signedAs, miner, addedCount>>
    /\ UNCHANGED blockVars

\* the genesis block after the caller has written one of its fields other
\* than the hash: chain[0].timestamp = 1, chain[0].transactions = [],
\* chain[0].previousHash = '', chain[0].nonce = 1
GenesisEdits(g) ==
    {[g EXCEPT !.timestamp = 1],
     [g EXCEPT !.transactions = <<>>],
     [g EXCEPT !.previousHash = <<>>],
     [g EXCEPT !.nonce = 1]}

\* one field of chain[0] other than the hash written by the caller, on a
\* fresh Blockchain or after mining
TamperGenesis(g) ==
    /\ tampered.kind = "none"
    /\ op \in {"new Blockchain", "minePendingTransaction"}
    /\ g \in GenesisEdits(chain[1])
    /\ chain' = [chain EXCEPT ![1] = g]
    /\ tampered' = [kind |-> "genesis", block |-> 1, index |-> 0]
    /\ op' = "edit genesis"
    /\ result' = "ok"
    /\ UNCHANGED <<pendingTransactions, tx, lastKey, signedAs, miner, addedCount>>
    /\ UNCHANGED blockVars

\* chain[0].hash = h written by the caller, on a fresh Blockchain or after
\* mining; the empty string is the previousHash of every mined block
GenesisHashValues == {<<>>, <<"0">>}

TamperGenesisHash(h) ==
    /\ tampered.kind = "none"
    /\ op \in {"new Blockchain", "minePendingTransaction"}
    /\ h # chain[1].hash
    /\ chain' = [chain EXCEPT ![1].hash = h]
    /\ tampered' = [kind |-> "genesis hash", block |-> 1, index |-> 0]
    /\ op' = "edit genesis hash"
    /\ result' = "ok"
    /\ UNCHANGED <<pendingTransactions, tx, lastKey, signedAs, miner, addedCount>>
    /\ UNCHANGED blockVars

NextTamper ==
    \/ Next
    \/ \E i \in 1..MaxChain, j \in 1..MaxPool, v \in TamperedAmounts :
           TamperAmount(i, j, v)
    \/ \E i \in 1..MaxChain, h \in PreviousHashValues : TamperPreviousHash(i, h)
    \/ \E i \in 1..MaxChain, j \in 1..MaxChain : SwapBlocks(i, j)
    \/ \E i \in 1..MaxChain, j \in 1..MaxPool :
           \E v \in UNION {SignatureValues(t) : t \in ValidInputs} :
               TamperSignature(i, j, v)
    \/ \E g \in GenesisEdits(chain[1]) : TamperGenesis(g)
    \/ \E h \in GenesisHashValues : TamperGenesisHash(h)

SpecTamper == Init /\ [][NextTamper]_vars

---------------------------------------------------------------------------
(* One Transactions object: built, signed, edited and verified *)

B1 == <<"B", "1">>

FromValues == {Null, A, B}
ToValues == {A, B, B1}
AmountValues == {0, 1, 10}

InitTx ==
    /\ InitLedger
    /\ NoBlock
    /\ tx \in {Transactions(f, t, a) :
                  f \in FromValues, t \in ToValues, a \in AmountValues}
    /\ lastKey = "none"
    /\ signedAs = <<>>
    /\ op = "new Transactions"
    /\ result = "ok"

\* tx.signTransaction(k)
SignTransaction(k) ==
    /\ op' = "signTransaction"
    /\ lastKey' = k
    /\ result' = signTransactionResult(tx, k)
    /\ tx' = signTransaction(tx, k)
    /\ signedAs' = IF signTransactionResult(tx, k) = "ok"
                   THEN <<tx.fromAddress, tx.toAddress, tx.amount>>
                   ELSE signedAs
    /\ UNCHANGED <<chain, pendingTransactions, tampered, miner, addedCount>>
    /\ UNCHANGED blockVars

\* tx.fromAddress = v, tx.toAddress = v, tx.amount = v
SetFromAddress(v) ==
    /\ v # tx.fromAddress
    /\ tx' = [tx EXCEPT !.fromAddress = v]
    /\ op' = "edit"
    /\ result' = "ok"
    /\ UNCHANGED <<chain, pendingTransactions, tampered, lastKey, signedAs>>
    /\ UNCHANGED <<miner, addedCount, theBlock, lifecycle, mineDifficulty>>

SetToAddress(v) ==
    /\ v # tx.toAddress
    /\ tx' = [tx EXCEPT !.toAddress = v]
    /\ op' = "edit"
    /\ result' = "ok"
    /\ UNCHANGED <<chain, pendingTransactions, tampered, lastKey, signedAs>>
    /\ UNCHANGED <<miner, addedCount, theBlock, lifecycle, mineDifficulty>>

SetAmount(v) ==
    /\ v # tx.amount
    /\ tx' = [tx EXCEPT !.amount = v]
    /\ op' = "edit"
    /\ result' = "ok"
    /\ UNCHANGED <<chain, pendingTransactions, tampered, lastKey, signedAs>>
    /\ UNCHANGED <<miner, addedCount, theBlock, lifecycle, mineDifficulty>>

\* tx.isValid()
IsValid ==
    /\ op' = "isValid"
    /\ result' = isValid(tx)
    /\ UNCHANGED <<chain, pendingTransactions, tampered, tx, lastKey, signedAs>>
    /\ UNCHANGED <<miner, addedCount, theBlock, lifecycle, mineDifficulty>>

NextTx ==
    \/ \E k \in Keys : SignTransaction(k)
    \/ \E v \in FromValues : SetFromAddress(v)
    \/ \E v \in ToValues : SetToAddress(v)
    \/ \E v \in AmountValues : SetAmount(v)
    \/ IsValid

SpecTx == InitTx /\ [][NextTx]_vars

---------------------------------------------------------------------------
(* One Block object: constructed, then mined by mineBlock, one loop        *)
(* iteration per step                                                      *)

\* the arguments of new Block(timestamp, transactions, previousHash)
BlockTimes == {1, 2}
BlockContents ==
    {<<>>,
     <<Signed(A, B, 10)>>,
     <<Transactions(Null, B, mimingReward)>>,
     <<Transactions(Null, A, mimingReward), Signed(A, B, 10)>>}
BlockPreviousHashes == {<<>>, createGenesisBlock.hash}

\* the arguments of mineBlock: 0 up to the difficulty of the Blockchain
Difficulties == 0..difficulty

\* the state after new Block(...), before mineBlock(d) is called on it
InitBlock ==
    /\ InitLedger
    /\ tx = NoTx
    /\ lastKey = "none"
    /\ signedAs = <<>>
    /\ theBlock \in {Block(t, ts, p) : t \in BlockTimes, ts \in BlockContents,
                                     p \in BlockPreviousHashes}
    /\ mineDifficulty \in Difficulties
    /\ lifecycle = "Sealing"
    /\ op = "new Block"
    /\ result = "ok"

\* the loop of mineBlock never changing the nonce
MineStepSameNonce ==
    /\ lifecycle = "Sealing"
    /\ Substring0(theBlock.hash, mineDifficulty) # Zeros(mineDifficulty)
    /\ theBlock' = [theBlock EXCEPT !.hash = Block_calculateHash(theBlock)]
    /\ op' = "mineBlock loop"
    /\ UNCHANGED <<chain, pendingTransactions, tampered, tx, lastKey, signedAs>>
    /\ UNCHANGED <<miner, addedCount, lifecycle, mineDifficulty, result>>

\* one iteration of the while loop of mineBlock: this.nonce++ and
\* this.hash = this.calculateHash()
MineStep ==
    /\ lifecycle = "Sealing"
    /\ Substring0(theBlock.hash, mineDifficulty) # Zeros(mineDifficulty)
    /\ LET b1 == [theBlock EXCEPT !.nonce = theBlock.nonce + 1]
       IN  theBlock' = [b1 EXCEPT !.hash = Block_calculateHash(b1)]
    /\ op' = "mineBlock loop"
    /\ UNCHANGED <<chain, pendingTransactions, tampered, tx, lastKey, signedAs>>
    /\ UNCHANGED <<miner, addedCount, lifecycle, mineDifficulty, result>>

\* the loop condition of mineBlock is false: mineBlock returns
MineReturn ==
    /\ lifecycle = "Sealing"
    /\ Substring0(theBlock.hash, mineDifficulty) = Zeros(mineDifficulty)
    /\ lifecycle' = "Sealed"
    /\ op' = "mineBlock"
    /\ UNCHANGED <<chain, pendingTransactions, tampered, tx, lastKey, signedAs>>
    /\ UNCHANGED <<miner, addedCount, theBlock, mineDifficulty, result>>

NextBlock ==
    \/ MineStep
    \/ MineReturn

SpecBlock == InitBlock /\ [][NextBlock]_vars

\* the thread running mineBlock is never suspended for ever: the loop is
\* synchronous code
SpecBlockFair == SpecBlock /\ WF_vars(NextBlock)

---------------------------------------------------------------------------
(* Properties of the ledger, checked under Spec *)

\* all Transactions objects in the blocks of c, as a sequence
RECURSIVE TransactionsOf(_, _)
TransactionsOf(c, i) ==
    IF i > Len(c) THEN <<>>
    ELSE (IF IsStringValue(c[i].transactions) THEN <<>> ELSE c[i].transactions)
         \o TransactionsOf(c, i + 1)

\* the sum of the amounts of the sender-less transactions of the sequence
RECURSIVE RewardSum(_, _)
RewardSum(ts, i) ==
    IF i > Len(ts) THEN 0
    ELSE (IF ts[i].fromAddress = Null THEN ts[i].amount ELSE 0)
         + RewardSum(ts, i + 1)

RewardTotal == RewardSum(TransactionsOf(chain, 1), 1)

\* the non-null addresses that appear in the chain
AddressesInChain ==
    LET ts == TransactionsOf(chain, 1)
    IN  ({ts[i].fromAddress : i \in 1..Len(ts)}
           \cup {ts[i].toAddress : i \in 1..Len(ts)}) \ {Null}

RECURSIVE SumOfBalances(_)
SumOfBalances(S) ==
    IF S = {} THEN 0
    ELSE LET a == CHOOSE x \in S : TRUE
         IN  getAddressOfBalance(chain, a) + SumOfBalances(S \ {a})

\* C1: after any sequence of addTransaction and minePendingTransaction calls
\* on a fresh ledger, isChainValid() returns true.
C1_ChainValid == isChainValid(chain) = "true"

\* C2: every block after the genesis block carries the stored hash of its
\* predecessor as previousHash.
C2_Linked ==
    \A i \in 2..Len(chain) : chain[i].previousHash = chain[i - 1].hash

\* the driver scenario: transfer (A, B, 10) signed by A added to a fresh
\* ledger, then one minePendingTransaction(A)
HasSender(t) == t.fromAddress # Null

DriverScenario ==
    /\ op = "minePendingTransaction"
    /\ Len(chain) = 2
    /\ SelectSeq(chain[2].transactions, HasSender) = <<Signed(A, B, 10)>>
    /\ LET rs == chain[2].transactions \o pendingTransactions
       IN  /\ \E i \in 1..Len(rs) : rs[i] = Transactions(Null, A, mimingReward)
           /\ \A i \in 1..Len(rs) : rs[i].toAddress = A => rs[i].fromAddress = Null

\* C3 as stated: after the driver scenario the chain has two blocks, A's
\* balance is 90 (reward counted at once) and B's is 10.
C3_RewardAtOnce ==
    DriverScenario =>
        /\ Len(chain) = 2
        /\ getAddressOfBalance(chain, A) = 90
        /\ getAddressOfBalance(chain, B) = 10

\* C3 amended: after the driver scenario the chain has two blocks, A's
\* balance is -10 (the reward of 100 is still pending, not in a block) and
\* B's is 10.
C3_RewardPending ==
    DriverScenario =>
        /\ Len(chain) = 2
        /\ getAddressOfBalance(chain, A) = 0 - 10
        /\ getAddressOfBalance(chain, B) = 10
        /\ getAddressOfBalance(<<[transactions |-> pendingTransactions]>>, A)
               = mimingReward

C3_Witness == DriverScenario /\ Len(pendingTransactions) = 1

\* C4 as stated: the rewards contained in the chain sum to mimingReward
\* times the number of mined blocks.
C4_RewardPerBlock == RewardTotal = mimingReward * (Len(chain) - 1)

\* C4 amended: the rewards contained in the chain sum to mimingReward times
\* the number of mined blocks but the latest one, whose reward is the single
\* sender-less transaction at the head of pendingTransactions.
C4_RewardLagsOneBlock ==
    /\ RewardTotal
         = mimingReward * (IF Len(chain) >= 2 THEN Len(chain) - 2 ELSE 0)
    /\ Len(chain) >= 2 =>
          /\ pendingTransactions[1].fromAddress = Null
          /\ pendingTransactions[1].amount = mimingReward
          /\ RewardSum(pendingTransactions, 1) = mimingReward

C4_Witness == Len(chain) = 3 /\ RewardTotal = mimingReward

\* C5: the balances of all non-null addresses in the chain sum to the total
\* of the sender-less (reward) transactions in the chain; with no reward in
\* the chain they sum to zero, and a self-transfer leaves its balance alone.
C5_ZeroSum == SumOfBalances(AddressesInChain) = RewardTotal

C5_Witness ==
    /\ Len(chain) = 3
    /\ RewardTotal > 0
    /\ LET ts == TransactionsOf(chain, 1)
       IN  /\ \E i \in 1..Len(ts) :
                 ts[i].fromAddress = A /\ ts[i].toAddress = A
           /\ \E i \in 1..Len(ts) :
                 ts[i].fromAddress = A /\ ts[i].toAddress = B

\* the cases in which C10 says addTransaction fails
C10_Rejected(t) ==
    \/ Falsy(t.fromAddress)
    \/ Falsy(t.toAddress)
    \/ (t.fromAddress # Null /\ (t.signature = Undefined \/ t.signature = <<>>))
    \/ isValid(t) = "false"

\* C10: addTransaction(tx) fails with an error and leaves pendingTransactions
\* and chain alone when tx lacks a sender, lacks a recipient, is unsigned or
\* does not verify; otherwise it appends tx at the tail of
\* pendingTransactions and changes nothing else.
C10_AddTransaction ==
    [][op' = "addTransaction" =>
          /\ chain' = chain
          /\ IF C10_Rejected(tx')
             THEN result' # "ok" /\ pendingTransactions' = pendingTransactions
             ELSE /\ result' = "ok"
                  /\ pendingTransactions' = Append(pendingTransactions, tx')]_vars

C10_Witness ==
    /\ op = "addTransaction"
    /\ result # "ok"
    /\ Len(pendingTransactions) = 1
    /\ Len(chain) = 2

---------------------------------------------------------------------------
(* Properties of a directly edited chain, checked under SpecTamper *)

\* C6: once the amount of one transaction in an appended block is changed
\* to a different value, isChainValid() returns false (it does not throw),
\* and the edited block itself fails the check of its transactions or of
\* its hash.
C6_AmountEditDetected ==
    tampered.kind = "amount" =>
        /\ isChainValid(chain) = "false"
        /\ LET b == chain[tampered.block]
           IN  \/ hasValidTransactions(b) = "false"
               \/ /\ hasValidTransactions(b) = "true"
                  /\ b.hash # Block_calculateHash(b)

C6_Witness ==
    /\ tampered.kind = "amount"
    /\ Len(chain) = 3
    /\ tampered.block = 3
    /\ chain[3].transactions[tampered.index].fromAddress = Null
    /\ isChainValid(chain) = "false"

\* C7: in a chain of at least two blocks in which a previousHash was changed
\* or two blocks were swapped, if some block's previousHash differs from the
\* stored hash of the block before it, isChainValid() returns false.
C7_LinkageEditDetected ==
    (/\ tampered.kind \in {"previousHash", "swap"}
     /\ Len(chain) >= 2
     /\ \E i \in 2..Len(chain) : chain[i].previousHash # chain[i - 1].hash)
    => isChainValid(chain) = "false"

---------------------------------------------------------------------------
(* Properties of one Transactions object, checked under SpecTx *)

\* C8, for a sender left as it was: isValid() on a transaction signed by its
\* sender's key returns true while sender, recipient and amount are what
\* was signed, and false once any of them differs from what was signed.
C8_SignVerify ==
    (/\ op = "isValid"
     /\ signedAs # <<>>
     /\ tx.fromAddress = signedAs[1])
    => IF <<tx.fromAddress, tx.toAddress, tx.amount>> = signedAs
       THEN result = "true"
       ELSE result = "false"

\* C9: signTransaction with a key whose public key is not the sender address
\* (any key when the sender is null) throws and leaves the object, its
\* signature included, as it was.
C9_ForeignKeyRejected ==
    [][(op' = "signTransaction" /\ getPublic(lastKey') # tx.fromAddress) =>
          /\ result' = "You cannot sign transactions for other wallets!"
          /\ tx'.signature = tx.signature
          /\ tx' = tx]_vars

C9_Witness ==
    /\ op = "signTransaction"
    /\ result = "You cannot sign transactions for other wallets!"
    /\ getPublic(lastKey) # tx.fromAddress
    /\ tx.signature # Undefined

---------------------------------------------------------------------------
(* A reward-shaped transaction submitted by a caller *)

\* a transaction with a null sender, a recipient and no signature
RewardShaped(t) ==
    /\ t.fromAddress = Null
    /\ ~Falsy(t.toAddress)
    /\ t.signature = Undefined

\* C11 as stated: a reward-shaped transaction passed to addTransaction is
\* accepted and is the last entry of the pending pool when the call returns.
C11_RewardShapedAccepted ==
    (op = "addTransaction" /\ RewardShaped(tx)) =>
        /\ result = "ok"
        /\ pendingTransactions # <<>>
        /\ pendingTransactions[Len(pendingTransactions)] = tx

\* C11 amended: a reward-shaped transaction passed to addTransaction is
\* rejected by the address check with 'Transaction must include from and to
\* address', before isValid is asked, and the pending pool and the chain are
\* left as they were.
C11_RewardShapedRejected ==
    [][(op' = "addTransaction" /\ RewardShaped(tx')) =>
           /\ result' = "Transaction must include from and to address"
           /\ isValid(tx') = "true"
           /\ pendingTransactions' = pendingTransactions
           /\ chain' = chain]_vars

C11_Witness ==
    /\ op = "addTransaction"
    /\ tx = Transactions(Null, B, 10)
    /\ result = "Transaction must include from and to address"
    /\ Len(pendingTransactions) = 1

---------------------------------------------------------------------------
(* Properties of one Block, checked under SpecBlock *)

\* C12: when mineBlock(d) has returned, for every block content and every
\* d >= 0, the stored hash equals calculateHash() of the block's current
\* fields, current nonce included, and its first d characters are '0' -
\* also when the loop made no iteration.
C12_MinedHashConsistent ==
    lifecycle = "Sealed" =>
        /\ theBlock.hash = Block_calculateHash(theBlock)
        /\ Substring0(theBlock.hash, mineDifficulty) = Zeros(mineDifficulty)

\* the largest nonce looked at when asking whether some nonce meets the target
MaxNonce == 8

\* some nonce from the starting nonce on gives a hash with d leading zeros
\* (the starting hash itself is the one the constructor stored)
SomeNonceMeetsTarget(b, d) ==
    \/ Substring0(b.hash, d) = Zeros(d)
    \/ \E n \in (b.nonce + 1)..MaxNonce :
           Substring0(calculateHashWith(b, NumberToString(n)), d) = Zeros(d)

\* C17: mineBlock(d) terminates: provided some nonce from the starting nonce
\* on gives a hash whose first d characters are '0', the loop that increments
\* the nonce and recomputes the hash eventually exits; the block it returns
\* is the one minePendingTransaction appends (the loop run as a whole); and
\* with difficulty 0 it exits without any iteration.
C17_MineTerminates ==
    /\ SomeNonceMeetsTarget(theBlock, mineDifficulty) => <>(lifecycle = "Sealed")
    /\ [](lifecycle = "Sealed" =>
             theBlock = mineBlock(Block(theBlock.timestamp, theBlock.transactions,
                                        theBlock.previousHash), mineDifficulty))
    /\ []((lifecycle = "Sealed" /\ mineDifficulty = 0) => theBlock.nonce = 0)

C17_Witness ==
    /\ lifecycle = "Sealed"
    /\ mineDifficulty = difficulty
    /\ theBlock.nonce >= 3
    /\ SomeNonceMeetsTarget(Block(theBlock.timestamp, theBlock.transactions,
                                  theBlock.previousHash), mineDifficulty)

\* C16: right after new Block(...), nonce is 0 and the stored hash equals
\* calculateHash() evaluated with that nonce.
C16_FreshHashConsistent ==
    op = "new Block" =>
        /\ theBlock.nonce = 0
        /\ theBlock.hash = Block_calculateHash(theBlock)

---------------------------------------------------------------------------
(* The effect of minePendingTransaction and addTransaction on chain and pool *)

\* C13: minePendingTransaction(m) makes the chain one block longer, the
\* blocks before it unchanged; the transactions of the appended block are the
\* pending pool as it was when the call started, in the same order; and when
\* the call returns the pool is exactly [(null, m, mimingReward)].
C13_MineEffect ==
    [][op' = "minePendingTransaction" =>
           /\ Len(chain') = Len(chain) + 1
           /\ SubSeq(chain', 1, Len(chain)) = chain
           /\ chain'[Len(chain')].transactions = pendingTransactions
           /\ pendingTransactions' =
                  <<[fromAddress |-> Null, toAddress |-> miner',
                     amount |-> mimingReward, signature |-> Undefined]>>]_vars

C13_Witness ==
    /\ op = "minePendingTransaction"
    /\ Len(chain) = 3
    /\ Len(chain[3].transactions) = 2
    /\ chain[3].transactions[1] = Transactions(Null, A, mimingReward)
    /\ chain[3].transactions[2] = Signed(A, B, 10)
    /\ pendingTransactions = <<Transactions(Null, B, mimingReward)>>

\* C14: the chain is append-only: its length never decreases, only
\* minePendingTransaction changes it, by one block at the tail, and every
\* block already in the chain keeps timestamp, transactions, previousHash,
\* nonce and hash through every later addTransaction, minePendingTransaction,
\* getAddressOfBalance and isChainValid call; in particular addTransaction
\* leaves the transactions of the appended blocks alone.
C14_AppendOnly ==
    [][/\ Len(chain') >= Len(chain)
       /\ \A i \in 1..Len(chain) :
              /\ chain'[i].timestamp = chain[i].timestamp
              /\ chain'[i].transactions = chain[i].transactions
              /\ chain'[i].previousHash = chain[i].previousHash
              /\ chain'[i].nonce = chain[i].nonce
              /\ chain'[i].hash = chain[i].hash
       /\ (chain' # chain) =>
              (op' = "minePendingTransaction" /\ Len(chain') = Len(chain) + 1)
       /\ (op' \in {"addTransaction", "getAddressOfBalance", "isChainValid"})
              => chain' = chain]_vars

C14_Witness ==
    /\ op = "isChainValid"
    /\ Len(chain) = 3
    /\ Len(pendingTransactions) = 2
    /\ chain[2].transactions = <<Signed(A, B, 10)>>
    /\ Len(chain[3].transactions) = 1

\* the number of entries with a sender in a sequence of transactions
RECURSIVE TransferCount(_, _)
TransferCount(ts, i) ==
    IF i > Len(ts) THEN 0
    ELSE (IF ts[i].fromAddress # Null THEN 1 ELSE 0) + TransferCount(ts, i + 1)

\* C15: under every interleaving of addTransaction and minePendingTransaction
\* calls (each call runs to completion: the code is synchronous), no
\* transaction is lost or included twice: the transfers in the blocks and in
\* the pool together are as many as the addTransaction calls that succeeded,
\* and a minePendingTransaction call moves the whole pool, as one snapshot,
\* into the block it appends and leaves none of it in the pool, so that each
\* added transaction is in the block of the first minePendingTransaction
\* after it and in no later one.
C15_NoLossNoDuplicate ==
    /\ [](TransferCount(TransactionsOf(chain, 1), 1)
             + TransferCount(pendingTransactions, 1) = addedCount)
    /\ [][op' = "minePendingTransaction" =>
              /\ chain'[Len(chain')].transactions = pendingTransactions
              /\ TransferCount(pendingTransactions', 1) = 0
              /\ TransferCount(TransactionsOf(chain', 1), 1)
                     = TransferCount(TransactionsOf(chain, 1), 1)
                         + TransferCount(pendingTransactions, 1)]_vars

C15_Witness ==
    /\ Len(chain) = 3
    /\ addedCount = 2
    /\ TransferCount(chain[2].transactions, 1) = 1
    /\ TransferCount(chain[3].transactions, 1) = 1
    /\ TransferCount(pendingTransactions, 1) = 0

---------------------------------------------------------------------------
(* The life of a block in the ledger *)

\* C18: a block is pushed onto the chain only after its mineBlock has
\* returned: the block pushed is the constructed block as mineBlock leaves
\* it; no later addTransaction or minePendingTransaction changes the nonce or
\* the hash of a block in the chain; hence the stored hash of every
\* non-genesis block starts with `difficulty' characters '0'.
C18_SealedBeforeAppended ==
    /\ [][op' = "minePendingTransaction" =>
              LET b == chain'[Len(chain')]
              IN  /\ Len(chain') = Len(chain) + 1
                  /\ b = mineBlock(Block(b.timestamp, b.transactions,
                                         b.previousHash), difficulty)]_vars
    /\ [][\A i \in 2..Len(chain) :
              /\ i <= Len(chain')
              /\ chain'[i].nonce = chain[i].nonce
              /\ chain'[i].hash = chain[i].hash]_vars
    /\ [](\A i \in 2..Len(chain) :
             Substring0(chain[i].hash, difficulty) = Zeros(difficulty))

C18_Witness ==
    /\ op = "addTransaction"
    /\ Len(chain) = 3
    /\ chain[2].nonce > 0
    /\ chain[3].nonce > 0
    /\ Substring0(chain[2].hash, difficulty) = Zeros(difficulty)
    /\ Substring0(chain[3].hash, difficulty) = Zeros(difficulty)

---------------------------------------------------------------------------
(* isChainValid on blocks with unsigned or wrongly signed transactions *)

\* chain[i].transactions[j] is the first thing isChainValid finds wrong: the
\* blocks before block i pass every check, and so do the transactions of
\* block i before the j-th, which does not
FirstFailureIs(i, j) ==
    /\ IsTransactions(chain[i].transactions[j])
    /\ isValid(chain[i].transactions[j]) # "true"
    /\ hasValidTransactionsFrom(SubSeq(chain[i].transactions, 1, j - 1), 1)
           = "true"
    /\ isChainValid(SubSeq(chain, 1, i - 1)) = "true"

---------------------------------------------------------------------------
(* isChainValid and the genesis block *)

\* C20: isChainValid never checks the genesis block itself: a freshly
\* constructed Blockchain (chain = [genesis], empty pool, difficulty 2,
\* mimingReward 100) is valid, a chain of the genesis block alone stays
\* valid whatever is written into the genesis block, and writing the
\* timestamp, transactions, previousHash or nonce of the genesis block
\* leaves the result of isChainValid as it was; the result depends on the
\* genesis block only through its stored hash, which the linkage check of the
\* block at index 1 compares with that block's previousHash.
C20_GenesisNotChecked ==
    /\ [](op = "new Blockchain" =>
             /\ chain = <<createGenesisBlock>>
             /\ pendingTransactions = <<>>
             /\ difficulty = 2
             /\ mimingReward = 100
             /\ isChainValid(chain) = "true")
    /\ [](Len(chain) = 1 => isChainValid(chain) = "true")
    /\ [][tampered'.kind = "genesis" =>
              /\ chain'[1] # chain[1]
              /\ chain'[1].hash = chain[1].hash
              /\ isChainValid(chain') = isChainValid(chain)]_vars
    /\ [][(/\ tampered'.kind = "genesis hash"
           /\ Len(chain) = 2
           /\ chain[2].hash = Block_calculateHash(chain[2])) =>
              isChainValid(chain') =
                  IF chain[2].previousHash = chain'[1].hash
                  THEN "true" ELSE "false"]_vars

C20_Witness ==
    /\ tampered.kind = "genesis"
    /\ Len(chain) = 1
    /\ chain[1].transactions = <<>>
    /\ chain[1].hash = createGenesisBlock.hash
    /\ isChainValid(chain) = "true"

---------------------------------------------------------------------------
(* What addTransaction lets into the pool and the blocks *)

\* the transactions of the pool and of the non-genesis blocks
RECURSIVE MinedTransactions(_, _)
MinedTransactions(c, i) ==
    IF i > Len(c) THEN <<>>
    ELSE c[i].transactions \o MinedTransactions(c, i + 1)

AcceptedTransactions == MinedTransactions(chain, 2) \o pendingTransactions

\* C21: in every state reached through addTransaction and
\* minePendingTransaction, every transaction of the pending pool and of every
\* non-genesis block either has a null sender (a reward) or carries a
\* non-empty signature for which isValid() returns true: no unsigned or
\* wrongly signed transfer is ever in the pool or in a block.
C21_OnlyValidTransactions ==
    \A i \in 1..Len(AcceptedTransactions) :
        LET t == AcceptedTransactions[i]
        IN  \/ t.fromAddress = Null
            \/ /\ t.signature # Undefined
               /\ t.signature # <<>>
               /\ isValid(t) = "true"

\* an unsigned or wrongly signed transfer was just refused, with signed
\* transfers in a block and the reward in the pool
C21_Witness ==
    /\ op = "addTransaction"
    /\ tx.fromAddress # Null
    /\ isValid(tx) # "true"
    /\ result # "ok"
    /\ Len(chain) = 2
    /\ TransferCount(MinedTransactions(chain, 2), 1) = 2
    /\ Len(pendingTransactions) = 1

---------------------------------------------------------------------------
(* Where the reward of a mined block is *)

\* the number of sender-less entries in a sequence of transactions
RewardCount(ts) == Len(ts) - TransferCount(ts, 1)

\* C22: the reward created by the k-th minePendingTransaction is not in the
\* k-th mined block: it is the entry at the head of the pending pool and is
\* the first transaction of the (k+1)-th mined block. So the first mined
\* block holds no reward, the chain holds max(0, mined blocks - 1) rewards,
\* the pool holds exactly one reward, at its head, once a block has been
\* mined, and the balance of the miner does not count a reward before the
\* following minePendingTransaction.
C22_RewardLag ==
    /\ [](Len(chain) >= 2 =>
             /\ RewardCount(chain[2].transactions) = 0
             /\ RewardCount(MinedTransactions(chain, 2)) = Len(chain) - 2
             /\ pendingTransactions[1] = Transactions(Null, miner, mimingReward)
             /\ RewardCount(pendingTransactions) = 1
             /\ \A i \in 3..Len(chain) :
                    /\ chain[i].transactions[1].fromAddress = Null
                    /\ RewardCount(chain[i].transactions) = 1)
    /\ [](Len(chain) = 1 =>
             RewardCount(pendingTransactions) = 0)
    /\ [][op' = "minePendingTransaction" =>
              /\ Len(chain) >= 2 =>
                     chain'[Len(chain')].transactions[1] = pendingTransactions[1]
              /\ pendingTransactions'[1]
                     = Transactions(Null, miner', mimingReward)
              /\ getAddressOfBalance(chain', miner')
                     = getAddressOfBalance(chain, miner')
                         + balanceOfTransactions(pendingTransactions, 1,
                                                 miner', 0)]_vars

\* A mined the second block and B the third: A's reward is the first
\* transaction of the third block, B's reward is still in the pool
C22_Witness ==
    /\ op = "minePendingTransaction"
    /\ Len(chain) = 3
    /\ miner = B
    /\ chain[3].transactions[1] = Transactions(Null, A, mimingReward)
    /\ pendingTransactions = <<Transactions(Null, B, mimingReward)>>
    /\ getAddressOfBalance(chain, B) < mimingReward
    /\ getAddressOfBalance(chain, A) >= mimingReward - 20

---------------------------------------------------------------------------
(* The same signed transaction submitted more than once *)

\* ts is two or more copies of one transfer between two different addresses
Copies(ts) ==
    /\ Len(ts) >= 2
    /\ \A i \in 1..Len(ts) : ts[i] = ts[1]
    /\ ts[1].fromAddress # ts[1].toAddress

\* C23: addTransaction does not deduplicate: a signed transaction that is
\* already in the pool or in a block is accepted again and appended again;
\* and a mined block whose transfers are k copies of one signed transaction
\* passes hasValidTransactions, debits the sender k times the amount and
\* credits the recipient k times the amount.
C23_NoReplayProtection ==
    /\ [][(/\ op' = "addTransaction"
           /\ tx'.fromAddress # Null
           /\ \E i \in 1..Len(AcceptedTransactions) :
                  AcceptedTransactions[i] = tx') =>
              /\ result' = "ok"
              /\ pendingTransactions' = Append(pendingTransactions, tx')]_vars
    /\ [](\A i \in 2..Len(chain) :
             LET ts == SelectSeq(chain[i].transactions, HasSender)
             IN  Copies(ts) =>
                     /\ hasValidTransactions(chain[i]) = "true"
                     /\ balanceOfTransactions(ts, 1, ts[1].fromAddress, 0)
                            = 0 - Len(ts) * ts[1].amount
                     /\ balanceOfTransactions(ts, 1, ts[1].toAddress, 0)
                            = Len(ts) * ts[1].amount
                     /\ Len(chain) = 2 =>
                            /\ getAddressOfBalance(chain, ts[1].fromAddress)
                                   = 0 - Len(ts) * ts[1].amount
                            /\ getAddressOfBalance(chain, ts[1].toAddress)
                                   = Len(ts) * ts[1].amount)

\* the transfer (A, B, 10) submitted twice and mined: A is at -20, B at 20
C23_Witness ==
    /\ op = "minePendingTransaction"
    /\ Len(chain) = 2
    /\ chain[2].transactions = <<Signed(A, B, 10), Signed(A, B, 10)>>
    /\ getAddressOfBalance(chain, A) = -20
    /\ getAddressOfBalance(chain, B) = 20
    /\ hasValidTransactions(chain[2]) = "true"

---------------------------------------------------------------------------
(* Transfers the sender cannot cover *)

\* C24: addTransaction accepts a signed transfer whatever the balance of the
\* sender and the amount; after one addTransaction of the transfer (A, B, 10)
\* and one minePendingTransaction on a fresh Blockchain the balance of A is
\* negative, so that a balance >= 0 is not an invariant of the ledger.
C24_NoFundsCheck ==
    /\ [][(/\ op' = "addTransaction"
           /\ ~Falsy(tx'.fromAddress)
           /\ ~Falsy(tx'.toAddress)
           /\ isValid(tx') = "true"
           /\ getAddressOfBalance(chain, tx'.fromAddress) < tx'.amount) =>
              /\ result' = "ok"
              /\ pendingTransactions' = Append(pendingTransactions, tx')]_vars
    /\ []((/\ Len(chain) = 2
           /\ chain[2].transactions = <<Signed(A, B, 10)>>) =>
              getAddressOfBalance(chain, A) < 0)

\* A, already at -10, has just had another transfer of 10 accepted
C24_Witness ==
    /\ op = "addTransaction"
    /\ result = "ok"
    /\ tx = Signed(A, B, 10)
    /\ Len(chain) = 2
    /\ chain[2].transactions = <<Signed(A, B, 10)>>
    /\ getAddressOfBalance(chain, A) = -10

====
